---- MODULE Spec2Model ----
(***************************************************************************)
(* Model of dm-data-pattern-scrambler (src/main.py): the pattern table,    *)
(* the backtracking search re.sub performs for each pattern, the fake      *)
(* value dispatch, DataPatternScrambler.scramble_text and main().          *)
(* A text is a sequence of one-character strings.                          *)
(***************************************************************************)
EXTENDS Integers, Sequences, FiniteSets, TLC

(***************************************************************************)
(* Character classes used by the four patterns of __init__.  \d and \s are *)
(* restricted to the ASCII characters of the modelled alphabet.            *)
(***************************************************************************)
Digit == {"0", "1", "2", "3", "4", "5", "6", "7", "8", "9"}

Lower == {"a", "b", "c", "d", "e", "f", "g", "h", "i", "j", "k", "l", "m",
          "n", "o", "p", "q", "r", "s", "t", "u", "v", "w", "x", "y", "z"}

Upper == {"A", "B", "C", "D", "E", "F", "G", "H", "I", "J", "K", "L", "M",
          "N", "O", "P", "Q", "R", "S", "T", "U", "V", "W", "X", "Y", "Z"}

Space == {" ", "\t", "\n", "\r"}

(***************************************************************************)
(* Regular expressions as trees.  hi = -1 stands for "no upper limit".     *)
(***************************************************************************)
Cls(S) == [t |-> "cls", set |-> S]

Chr(c) == Cls({c})

Cat(rs) == [t |-> "cat", rs |-> rs]

Alt(rs) == [t |-> "alt", rs |-> rs]

Rep(r, lo, hi, greedy) == [t |-> "rep", r |-> r, lo |-> lo, hi |-> hi, greedy |-> greedy]

Times(r, n) == Rep(r, n, n, TRUE)

Opt(r) == Rep(r, 0, 1, TRUE)

LazyOpt(r) == Rep(r, 0, 1, FALSE)

Plus(r) == Rep(r, 1, -1, TRUE)

Star(r) == Rep(r, 0, -1, TRUE)

AtLeast(r, n) == Rep(r, n, -1, TRUE)

(***************************************************************************)
(* The search of Python's re module: Ends(r, s, i) lists, in the order the *)
(* backtracking matcher tries them, the positions just past each way r can *)
(* match s starting at position i.  The match taken is the first one.      *)
(***************************************************************************)
RECURSIVE Ends(_, _, _), EndsFrom(_, _, _), EndsAlt(_, _, _)

Ends(r, s, i) ==
    CASE r.t = "cls" -> IF i <= Len(s) /\ s[i] \in r.set THEN <<i + 1>> ELSE <<>>
      [] r.t = "cat" -> IF r.rs = <<>> THEN <<i>>
                        ELSE EndsFrom(Cat(Tail(r.rs)), s, Ends(Head(r.rs), s, i))
      [] r.t = "alt" -> EndsAlt(r.rs, s, i)
      [] r.t = "rep" ->
            IF r.hi = 0 THEN <<i>>
            ELSE LET rest == Rep(r.r, IF r.lo > 0 THEN r.lo - 1 ELSE 0,
                                 IF r.hi > 0 THEN r.hi - 1 ELSE r.hi, r.greedy)
                     step == SelectSeq(Ends(r.r, s, i), LAMBDA e : e > i)
                     more == EndsFrom(rest, s, step)
                 IN  IF r.lo > 0 THEN more
                     ELSE IF r.greedy THEN more \o <<i>> ELSE <<i>> \o more

EndsFrom(r, s, starts) ==
    IF starts = <<>> THEN <<>>
    ELSE Ends(r, s, Head(starts)) \o EndsFrom(r, s, Tail(starts))

EndsAlt(rs, s, i) ==
    IF rs = <<>> THEN <<>>
    ELSE Ends(Head(rs), s, i) \o EndsAlt(Tail(rs), s, i)

(***************************************************************************)
(* self.patterns                                                           *)
(***************************************************************************)
Sep == Cls({"-", "."} \cup Space)

D == Cls(Digit)

PhonePattern ==
    Alt(<< Cat(<<Times(D, 3), LazyOpt(Sep), Times(D, 3), LazyOpt(Sep), Times(D, 4)>>),
           Cat(<<Chr("("), Times(D, 3), Chr(")"), Star(Cls(Space)),
                 Times(D, 3), LazyOpt(Sep), Times(D, 4)>>),
           Cat(<<Times(D, 3), LazyOpt(Sep), Times(D, 4)>>) >>)

CreditCardPattern ==
    Alt(<< Cat(<<Chr("4"), Times(D, 12), Opt(Times(D, 3))>>),
           Cat(<<Chr("5"), Cls({"1", "2", "3", "4", "5"}), Times(D, 14)>>),
           Cat(<<Chr("6"),
                 Alt(<<Cat(<<Chr("0"), Chr("1"), Chr("1")>>),
                       Cat(<<Chr("5"), Times(D, 2)>>)>>),
                 Times(D, 12)>>),
           Cat(<<Chr("3"), Cls({"4", "7"}), Times(D, 13)>>),
           Cat(<<Chr("3"),
                 Alt(<<Cat(<<Chr("0"), Cls({"0", "1", "2", "3", "4", "5"})>>),
                       Cat(<<Cls({"6", "8"}), D>>)>>),
                 Times(D, 11)>>),
           Cat(<<Alt(<<Cat(<<Chr("2"), Chr("1"), Chr("3"), Chr("1")>>),
                       Cat(<<Chr("1"), Chr("8"), Chr("0"), Chr("0")>>),
                       Cat(<<Chr("3"), Chr("5"), Times(D, 3)>>)>>),
                 Times(D, 11)>>) >>)

EmailLocal == Cls(Lower \cup Upper \cup Digit \cup {".", "_", "%", "+", "-"})

EmailDomain == Cls(Lower \cup Upper \cup Digit \cup {".", "-"})

EmailPattern ==
    Cat(<<Plus(EmailLocal), Chr("@"), Plus(EmailDomain), Chr("."),
          AtLeast(Cls(Lower \cup Upper), 2)>>)

Octet ==
    Alt(<< Cat(<<Chr("2"), Chr("5"), Cls({"0", "1", "2", "3", "4", "5"})>>),
           Cat(<<Chr("2"), Cls({"0", "1", "2", "3", "4"}), D>>),
           Cat(<<Opt(Cls({"0", "1"})), D, Opt(D)>>) >>)

IpPattern == Cat(<<Times(Cat(<<Octet, Chr(".")>>), 3), Octet>>)

\* Variant of CategoryOrder: the keys in alphabetical order.
CategoryOrderSorted == <<"credit_card", "email", "ip_address", "phone_number">>

CategoryOrder == <<"phone_number", "credit_card", "email", "ip_address">>

Categories == {CategoryOrder[k] : k \in DOMAIN CategoryOrder}

patterns ==
    [c \in Categories |->
        CASE c = "phone_number" -> PhonePattern
          [] c = "credit_card"  -> CreditCardPattern
          [] c = "email"        -> EmailPattern
          [] c = "ip_address"   -> IpPattern]

(***************************************************************************)
(* re.sub scans left to right: the leftmost position where the pattern     *)
(* matches gives the next span, and the scan resumes at its end.  None of  *)
(* the four patterns matches the empty string.                             *)
(***************************************************************************)
RECURSIVE FindAll(_, _, _)

FindAll(p, s, pos) ==
    IF pos > Len(s) THEN <<>>
    ELSE LET es == Ends(p, s, pos)
         IN  IF es = <<>> \/ Head(es) = pos THEN FindAll(p, s, pos + 1)
             ELSE <<[st |-> pos, en |-> Head(es)]>> \o FindAll(p, s, Head(es))

(***************************************************************************)
(* Variants of Splice: the text behind the last span is lost; the matched  *)
(* text is kept behind its replacement.                                    *)
(***************************************************************************)
RECURSIVE SpliceNoTail(_, _, _, _, _), SpliceKeepMatch(_, _, _, _, _)

SpliceNoTail(s, spans, vals, k, pos) ==
    IF k > Len(spans) THEN <<>>
    ELSE SubSeq(s, pos, spans[k].st - 1) \o vals[k]
         \o SpliceNoTail(s, spans, vals, k + 1, spans[k].en)

SpliceKeepMatch(s, spans, vals, k, pos) ==
    IF k > Len(spans) THEN SubSeq(s, pos, Len(s))
    ELSE SubSeq(s, pos, spans[k].st - 1) \o vals[k]
         \o SpliceKeepMatch(s, spans, vals, k + 1, spans[k].st)

(***************************************************************************)
(* re.sub: the text with every span replaced by its value, the rest kept.  *)
(***************************************************************************)
RECURSIVE Splice(_, _, _, _, _)

Splice(s, spans, vals, k, pos) ==
    IF k > Len(spans) THEN SubSeq(s, pos, Len(s))
    ELSE SubSeq(s, pos, spans[k].st - 1) \o vals[k]
         \o Splice(s, spans, vals, k + 1, spans[k].en)

(***************************************************************************)
(* The Fake-Data Provider (faker.Faker).  A locale it does not know makes  *)
(* its constructor raise; each of its methods returns one of its values or *)
(* raises.                                                                 *)
(***************************************************************************)
Locales == {"en_US", "xx_XX"}

SupportedLocales == {"en_US"}

FakerMethod ==
    [c \in Categories |->
        CASE c = "phone_number" -> "phone_number"
          [] c = "credit_card"  -> "credit_card_number"
          [] c = "email"        -> "email"
          [] c = "ip_address"   -> "ipv4"]

FakeValues ==
    [m \in {"phone_number", "credit_card_number", "email", "ipv4"} |->
        CASE m = "phone_number"       -> {<<"2", "0", "1", "-", "5", "5", "5", "-", "0", "1", "2", "3">>}
          [] m = "credit_card_number" -> {<<"4", "0", "0", "0", "0", "0", "0", "0", "0", "0", "0", "0", "0", "0", "0", "2">>}
          [] m = "email"              -> {<<"x", "@", "y", ".", "o", "r", "g">>}
          [] m = "ipv4"               -> {<<"1", "0", ".", "0", ".", "0", ".", "1">>}]

FakerCall(m) ==
    {[ok |-> TRUE, val |-> v] : v \in FakeValues[m]} \cup {[ok |-> FALSE, val |-> <<>>]}

(***************************************************************************)
(* The requests explored: texts made of up to MaxSamples sample texts, one *)
(* after the other, and category sequences of up to MaxNames names, "ssn"  *)
(* being an unknown one.                                                   *)
(***************************************************************************)
MaxSamples == 1

MaxNames == 2

Samples ==
    { <<"4", "1", "1", "1", "1", "1", "1", "1", "1", "1", "1", "1", "1", "1", "1", "1", " ", "5", "5", "5", "-", "1", "2", "3", "4">>,
      <<"a", "@", "b", ".", "c", "c">>,
      <<"1", ".", "2", ".", "3", ".", "4">>,
      <<"2", "5", "6", ".", "1", ".", "1", ".", "1">>,
      <<"9", "9", "9", ".", "9", "9", "9", ".", "9", "9", "9", ".", "9", "9", "9">> }

RECURSIVE TextsOf(_)

TextsOf(n) ==
    IF n = 0 THEN {<<>>}
    ELSE TextsOf(n - 1) \cup {a \o b : a \in TextsOf(n - 1), b \in Samples}

Inputs == TextsOf(MaxSamples)

Names == Categories \cup {"ssn"}

\* Python's None: a value that is no text and no sequence of names.
None == <<"None">>

NameSeqs == UNION {[1..n -> Names] : n \in 0..MaxNames}

(***************************************************************************)
(* Variants of generate_fake_value: without the try/except of lines 86 and *)
(* 98-100, and with an empty replacement for a failed generation.          *)
(***************************************************************************)
generate_fake_value_uncaught(pattern_name, match, o) ==
    IF pattern_name \in Categories
    THEN IF o.ok
         THEN [exc |-> "none", val |-> o.val, fresh |-> TRUE, log |-> <<>>]
         ELSE [exc |-> "Exception", val |-> match, fresh |-> FALSE, log |-> <<>>]
    ELSE [exc |-> "none", val |-> match, fresh |-> FALSE,
          log |-> <<[level |-> "WARNING", what |-> "no faker method", name |-> pattern_name]>>]

generate_fake_value_blank(pattern_name, match, o) ==
    IF pattern_name \in Categories
    THEN IF o.ok
         THEN [exc |-> "none", val |-> o.val, fresh |-> TRUE, log |-> <<>>]
         ELSE [exc |-> "none", val |-> <<>>, fresh |-> FALSE,
               log |-> <<[level |-> "ERROR", what |-> "generate", name |-> pattern_name]>>]
    ELSE [exc |-> "none", val |-> match, fresh |-> FALSE,
          log |-> <<[level |-> "WARNING", what |-> "no faker method", name |-> pattern_name]>>]

(***************************************************************************)
(* generate_fake_value: the provider's value for the category, or the      *)
(* matched text itself when the provider raises or the name has no method. *)
(* o is what the provider call does.  exc is what escapes the function.    *)
(***************************************************************************)
generate_fake_value(pattern_name, match, o) ==
    IF pattern_name \in Categories
    THEN IF o.ok
         THEN [exc |-> "none", val |-> o.val, fresh |-> TRUE, log |-> <<>>]
         ELSE [exc |-> "none", val |-> match, fresh |-> FALSE,
               log |-> <<[level |-> "ERROR", what |-> "generate", name |-> pattern_name]>>]
    ELSE [exc |-> "none", val |-> match, fresh |-> FALSE,
          log |-> <<[level |-> "WARNING", what |-> "no faker method", name |-> pattern_name]>>]

RECURSIVE FlatLogs(_, _)

FlatLogs(gens, n) ==
    IF n = 0 THEN <<>> ELSE FlatLogs(gens, n - 1) \o gens[n].log

Zeros(n) == [j \in 1..n |-> 0]

(***************************************************************************)
(* The substitution of re.sub, with generate_fake_value as the replacement *)
(* function, called once per span in order.  outs[k] is what the provider  *)
(* does at the k-th call.  origin carries, for each character, its index   *)
(* in the input text, 0 for a generated character.  An exception of the    *)
(* replacement function is not a re.error and leaves replace_pattern.      *)
(***************************************************************************)
Substitute(text, origin, spans, pattern_name, outs) ==
    LET n     == Len(spans)
        gens  == [k \in 1..n |->
                    generate_fake_value(pattern_name,
                        SubSeq(text, spans[k].st, spans[k].en - 1), outs[k])]
        bad   == {k \in 1..n : gens[k].exc # "none"}
        first == CHOOSE k \in bad : \A j \in bad : k <= j
        vals  == [k \in 1..n |-> gens[k].val]
        fresh == [k \in 1..n |-> gens[k].fresh]
        ovals == [k \in 1..n |->
                    IF fresh[k] THEN Zeros(Len(vals[k]))
                    ELSE SubSeq(origin, spans[k].st, spans[k].en - 1)]
    IN  IF bad # {}
        THEN [exc |-> gens[first].exc, text |-> text, origin |-> origin,
              spans |-> spans, vals |-> vals, fresh |-> fresh,
              log |-> FlatLogs(gens, first)]
        ELSE [exc |-> "none",
              text |-> Splice(text, spans, vals, 1, 1),
              origin |-> Splice(origin, spans, ovals, 1, 1),
              spans |-> spans, vals |-> vals, fresh |-> fresh,
              log |-> FlatLogs(gens, n)]

\* re.compile accepts the pattern: true of the four patterns of the table
Compiles(pattern) == pattern.t \in {"cls", "cat", "alt", "rep"}

(***************************************************************************)
(* replace_pattern, lines 68-73.  found is what the search of re.sub       *)
(* yields, FindAll(pattern, text, 1); the caller computes it once for all  *)
(* the outcomes of the provider.                                           *)
(***************************************************************************)
replace_pattern(text, origin, pattern, pattern_name, found, outs) ==
    IF Compiles(pattern)
    THEN Substitute(text, origin, found, pattern_name, outs)
    ELSE [exc |-> "none", text |-> text, origin |-> origin,
          spans |-> <<>>, vals |-> <<>>, fresh |-> <<>>,
          log |-> <<[level |-> "ERROR", what |-> "re.error", name |-> pattern_name]>>]

(***************************************************************************)
(* State.  entry tells who uses the scrambler: main(), or a caller of the  *)
(* class.  passes records, for every replace_pattern call of scramble_text,*)
(* the text it searched, the spans it found and the text it returned.      *)
(* checked holds the positions of argNames whose name has been tested      *)
(* against the known categories.  inputSpans is, for each category, what   *)
(* its pattern matches in the input text.                                  *)
(***************************************************************************)
VARIABLES pc, entry, input, inputSpans, argNames, locale, scrambler, names,
          i, text, origin, passes, checked, log, result, exitcode

vars == <<pc, entry, input, inputSpans, argNames, locale, scrambler, names,
          i, text, origin, passes, checked, log, result, exitcode>>

Identity(s) == [j \in 1..Len(s) |-> j]

Init ==
    /\ entry \in {"main", "api"}
    /\ input \in Inputs
    /\ inputSpans = [c \in Categories |-> FindAll(patterns[c], input, 1)]
    /\ argNames \in NameSeqs \cup {None}
    /\ entry = "main" => argNames # <<>>
    /\ locale \in Locales
    /\ pc = IF entry = "main" THEN "validate" ELSE "construct"
    /\ scrambler = FALSE
    /\ names = <<>>
    /\ i = 0
    /\ text = <<>>
    /\ origin = <<>>
    /\ passes = <<>>
    /\ checked = {}
    /\ log = <<>>
    /\ result = None
    /\ exitcode = 0

(***************************************************************************)
(* main, lines 127-133: every requested name is tested in turn; the first  *)
(* invalid one ends the process with status 1.                             *)
(***************************************************************************)
InvalidAt(ns) == {k \in DOMAIN ns : ns[k] \notin Categories}

FirstInvalid(ns) == CHOOSE k \in InvalidAt(ns) : \A j \in InvalidAt(ns) : k <= j

\* Variant of MainValidate: the names are not tested.
MainValidateNone ==
    /\ pc = "validate"
    /\ pc' = "read"
    /\ UNCHANGED <<entry, input, inputSpans, argNames, locale, scrambler, names, i, text,
                   origin, passes, checked, log, result, exitcode>>

MainValidate ==
    /\ pc = "validate"
    /\ IF argNames # None /\ InvalidAt(argNames) # {}
       THEN /\ checked' = 1..FirstInvalid(argNames)
            /\ log' = Append(log, [level |-> "ERROR", what |-> "invalid pattern",
                                   name |-> argNames[FirstInvalid(argNames)]])
            /\ exitcode' = 1
            /\ pc' = "exit"
       ELSE /\ checked' = IF argNames = None THEN {} ELSE DOMAIN argNames
            /\ pc' = "read"
            /\ UNCHANGED <<log, exitcode>>
    /\ UNCHANGED <<entry, input, inputSpans, argNames, locale, scrambler, names, i, text,
                   origin, passes, result>>

(***************************************************************************)
(* main, lines 138-152: the text comes from the file, the argument or      *)
(* stdin; a file that cannot be read ends the process with status 1.       *)
(***************************************************************************)
MainReadInput ==
    /\ pc = "read"
    /\ \E io \in {"ok", "FileNotFoundError", "IOError"} :
          IF io = "ok"
          THEN /\ pc' = "construct"
               /\ UNCHANGED <<log, exitcode>>
          ELSE /\ log' = Append(log, [level |-> "ERROR", what |-> io, name |-> "file"])
               /\ exitcode' = 1
               /\ pc' = "exit"
    /\ UNCHANGED <<entry, input, inputSpans, argNames, locale, scrambler, names, i, text,
                   origin, passes, checked, result>>

(***************************************************************************)
(* Variant of Construct: an unknown locale still yields an instance.       *)
(***************************************************************************)
ConstructLenient ==
    /\ pc = "construct"
    /\ scrambler' = TRUE
    /\ pc' = "call"
    /\ UNCHANGED <<entry, input, inputSpans, argNames, locale, names, i, text, origin,
                   passes, checked, log, result, exitcode>>

(***************************************************************************)
(* __init__: Faker(locale) raises for a locale it does not know, and no    *)
(* instance exists then.  main catches it (line 169) and exits with 1.     *)
(***************************************************************************)
Construct ==
    /\ pc = "construct"
    /\ IF locale \in SupportedLocales
       THEN /\ scrambler' = TRUE
            /\ pc' = "call"
            /\ UNCHANGED <<log, exitcode>>
       ELSE /\ scrambler' = FALSE
            /\ IF entry = "main"
               THEN /\ log' = Append(log, [level |-> "ERROR", what |-> "unexpected",
                                           name |-> "ConfigurationError"])
                    /\ exitcode' = 1
                    /\ pc' = "exit"
               ELSE /\ pc' = "raised"
                    /\ UNCHANGED <<log, exitcode>>
    /\ UNCHANGED <<entry, input, inputSpans, argNames, locale, names, i, text, origin,
                   passes, checked, result>>

(***************************************************************************)
(* scramble_text, lines 43-44: the names to go through.                    *)
(***************************************************************************)
ScrambleBegin ==
    /\ pc = "call"
    /\ scrambler
    /\ names' = IF argNames = None THEN CategoryOrder ELSE argNames
    /\ i' = 1
    /\ text' = input
    /\ origin' = Identity(input)
    /\ pc' = "loop"
    /\ UNCHANGED <<entry, input, inputSpans, argNames, locale, scrambler, passes, checked,
                   log, result, exitcode>>

(***************************************************************************)
(* Variant of SkipUnknown: the loop is left at the unknown name (break     *)
(* instead of continue).                                                   *)
(***************************************************************************)
SkipUnknownBreak ==
    /\ log' = Append(log, [level |-> "WARNING", what |-> "unknown pattern",
                           name |-> names[i]])
    /\ i' = Len(names) + 1
    /\ pc' = "loop"
    /\ UNCHANGED <<text, origin, passes, exitcode>>

(***************************************************************************)
(* scramble_text, lines 47-49: an unknown name is logged and passed over.  *)
(***************************************************************************)
SkipUnknown ==
    /\ log' = Append(log, [level |-> "WARNING", what |-> "unknown pattern",
                           name |-> names[i]])
    /\ i' = i + 1
    /\ pc' = "loop"
    /\ UNCHANGED <<text, origin, passes, exitcode>>

(***************************************************************************)
(* Variant of ApplyPattern: every pass searches the input text.            *)
(***************************************************************************)
ApplyPatternOnInput(t, o) ==
    \E found \in {FindAll(patterns[names[i]], input, 1)} :
    \E outs \in [1..Len(found) -> FakerCall(FakerMethod[names[i]])] :
    \E r \in {replace_pattern(input, Identity(input), patterns[names[i]], names[i],
                              found, outs)} :
        /\ log' = log \o r.log
        /\ passes' = Append(passes,
                       [idx |-> i, name |-> names[i], on |-> input,
                        onOrigin |-> Identity(input),
                        spans |-> r.spans, vals |-> r.vals, fresh |-> r.fresh,
                        exc |-> r.exc, out |-> r.text])
        /\ text' = r.text
        /\ origin' = r.origin
        /\ i' = i + 1
        /\ pc' = "loop"
        /\ UNCHANGED exitcode

(***************************************************************************)
(* scramble_text, lines 51-52: text = self.replace_pattern(text, ...).     *)
(* t and o are the text handed to replace_pattern and its origins.  An     *)
(* exception leaving replace_pattern leaves scramble_text too; main        *)
(* catches it (line 169) and exits with status 1.                          *)
(***************************************************************************)
ApplyPattern(t, o) ==
    \E found \in {FindAll(patterns[names[i]], t, 1)} :
    \E outs \in [1..Len(found) -> FakerCall(FakerMethod[names[i]])] :
    \E r \in {replace_pattern(t, o, patterns[names[i]], names[i], found, outs)} :
        /\ log' = log \o r.log
        /\ passes' = Append(passes,
                       [idx |-> i, name |-> names[i], on |-> t, onOrigin |-> o,
                        spans |-> r.spans, vals |-> r.vals, fresh |-> r.fresh,
                        exc |-> r.exc, out |-> r.text])
        /\ IF r.exc = "none"
           THEN /\ text' = r.text
                /\ origin' = r.origin
                /\ i' = i + 1
                /\ pc' = "loop"
                /\ UNCHANGED exitcode
           ELSE /\ UNCHANGED <<text, origin, i>>
                /\ pc' = IF entry = "main" THEN "exit" ELSE "raised"
                /\ exitcode' = IF entry = "main" THEN 1 ELSE exitcode

(***************************************************************************)
(* scramble_text, lines 46-52: one turn of the loop.                       *)
(***************************************************************************)
ScrambleStep ==
    /\ pc = "loop"
    /\ i <= Len(names)
    /\ IF names[i] \notin Categories THEN SkipUnknown ELSE ApplyPattern(text, origin)
    /\ checked' = checked \cup {i}
    /\ UNCHANGED <<entry, input, inputSpans, argNames, locale, scrambler, names, result>>

(***************************************************************************)
(* scramble_text, line 54.                                                 *)
(***************************************************************************)
ScrambleReturn ==
    /\ pc = "loop"
    /\ i > Len(names)
    /\ result' = text
    /\ pc' = IF entry = "main" THEN "output" ELSE "done"
    /\ UNCHANGED <<entry, input, inputSpans, argNames, locale, scrambler, names, i, text,
                   origin, passes, checked, log, exitcode>>

(***************************************************************************)
(* main, lines 157-167: the result is written or printed; a failed write   *)
(* ends the process with status 1.                                         *)
(***************************************************************************)
MainOutput ==
    /\ pc = "output"
    /\ \E io \in {"ok", "IOError"} :
          IF io = "ok"
          THEN /\ pc' = "done"
               /\ UNCHANGED <<log, exitcode>>
          ELSE /\ log' = Append(log, [level |-> "ERROR", what |-> io, name |-> "output"])
               /\ exitcode' = 1
               /\ pc' = "exit"
    /\ UNCHANGED <<entry, input, inputSpans, argNames, locale, scrambler, names, i, text,
                   origin, passes, checked, result>>

Next ==
    \/ MainValidate
    \/ MainReadInput
    \/ Construct
    \/ ScrambleBegin
    \/ ScrambleStep
    \/ ScrambleReturn
    \/ MainOutput

Spec == Init /\ [][Next]_vars

(***************************************************************************)
(* Properties                                                              *)
(***************************************************************************)
Chars == Digit \cup Lower \cup Upper \cup Space
         \cup {"-", ".", "@", "(", ")", "_", "%", "+"}

PassNames == [p \in DOMAIN passes |-> passes[p].name]

Warned(name) ==
    \E j \in DOMAIN log :
        log[j] = [level |-> "WARNING", what |-> "unknown pattern", name |-> name]

\* how many of the first n entries of the sequence s satisfy Test
Count(s, n, Test(_)) == Cardinality({k \in 1..n : Test(s[k])})

LastText == IF passes = <<>> THEN input ELSE passes[Len(passes)].out

\* C1: a name that is none of the four categories is skipped by
\* scramble_text: nothing is raised, no replace_pattern call is made for it,
\* the text is left as it was, one warning per such name is logged, and the
\* valid names before and after it each get their call.
C1_UnknownSkipped ==
    /\ \A k \in DOMAIN names :
         k < i =>
            IF names[k] \in Categories
            THEN \E p \in DOMAIN passes :
                    passes[p].idx = k /\ passes[p].name = names[k]
            ELSE /\ Warned(names[k])
                 /\ \A p \in DOMAIN passes : passes[p].idx # k
    /\ Count(log, Len(log), LAMBDA e : e.level = "WARNING")
         = Count(names, IF i > 0 THEN i - 1 ELSE 0, LAMBDA nm : nm \notin Categories)
    /\ (InvalidAt(names) # {} /\ scrambler) => pc # "raised"
    /\ pc = "loop" => text = LastText
    /\ result # None => (i = Len(names) + 1 /\ result = LastText)

C1_Witness ==
    /\ result # None
    /\ Len(names) = 2
    /\ names[1] \notin Categories
    /\ names[2] \in Categories
    /\ Len(passes) = 1
    /\ passes[1].spans # <<>>
    /\ result # input

FailedAt(p) == {k \in DOMAIN passes[p].spans : ~passes[p].fresh[k]}

\* C2: once a scrambler exists, scramble_text returns a text and raises
\* nothing, whatever the provider does and whatever names it is given; the
\* only exception that reaches the caller is the one of the construction.
C2_AlwaysReturnsText ==
    /\ pc = "raised" => ~scrambler
    /\ (pc = "exit" /\ scrambler) => result # None
    /\ pc \in {"output", "done"} =>
          (result # None /\ \A j \in DOMAIN result : result[j] \in Chars)

C2_Witness ==
    /\ pc = "done"
    /\ entry = "api"
    /\ InvalidAt(names) # {}
    /\ \E p \in DOMAIN passes : Len(passes[p].spans) >= 2
    /\ \A p \in DOMAIN passes : FailedAt(p) = DOMAIN passes[p].spans
    /\ result = input

RECURSIVE Shift(_, _)

\* by how much the first k replacements of a pass move the text behind them
Shift(ps, k) ==
    IF k = 0 THEN 0
    ELSE Shift(ps, k - 1) + Len(ps.vals[k]) - (ps.spans[k].en - ps.spans[k].st)

RECURSIVE TotalFailed(_)

TotalFailed(n) ==
    IF n = 0 THEN 0 ELSE TotalFailed(n - 1) + Cardinality(FailedAt(n))

\* C3: when the provider fails for a match, the matched text is what the
\* pass emits at that place, one error is logged, the call is not aborted,
\* every match of the pass still gets its replacement, and the categories
\* after it still get their pass.
C3_GeneratorFailureKeepsMatch ==
    /\ \A p \in DOMAIN passes :
         LET ps == passes[p]
         IN  /\ ps.exc = "none"
             /\ Len(ps.vals) = Len(ps.spans)
             /\ \A k \in FailedAt(p) :
                  LET m == SubSeq(ps.on, ps.spans[k].st, ps.spans[k].en - 1)
                  IN  /\ ps.vals[k] = m
                      /\ SubSeq(ps.out, ps.spans[k].st + Shift(ps, k - 1),
                                ps.spans[k].en - 1 + Shift(ps, k - 1)) = m
             /\ \A k \in DOMAIN ps.spans \ FailedAt(p) :
                  ps.vals[k] \in FakeValues[FakerMethod[ps.name]]
    /\ Count(log, Len(log), LAMBDA e : e.level = "ERROR" /\ e.what = "generate")
         = TotalFailed(Len(passes))
    /\ (\E p \in DOMAIN passes : FailedAt(p) # {}) =>
          /\ pc # "raised"
          /\ (pc = "exit" => result # None)
    /\ result # None =>
          Len(passes) = Count(names, Len(names), LAMBDA nm : nm \in Categories)

C3_Witness ==
    /\ result # None
    /\ \E p \in DOMAIN passes :
         /\ \E k \in FailedAt(p) :
              \E k2 \in DOMAIN passes[p].spans : k2 > k /\ passes[p].fresh[k2]
         /\ \E p2 \in DOMAIN passes :
              /\ p2 > p
              /\ passes[p2].name # passes[p].name
              /\ \E k \in DOMAIN passes[p2].spans : passes[p2].fresh[k]

Kept == {j \in DOMAIN origin : origin[j] # 0}

\* the input positions some pass has replaced by a generated value
Consumed ==
    UNION {UNION {{passes[p].onOrigin[q] :
                      q \in passes[p].spans[k].st .. passes[p].spans[k].en - 1} :
                  k \in DOMAIN passes[p].spans \ FailedAt(p)} :
           p \in DOMAIN passes} \ {0}

RECURSIVE SpanLen(_, _), ValLen(_, _)

SpanLen(ps, k) ==
    IF k = 0 THEN 0 ELSE SpanLen(ps, k - 1) + ps.spans[k].en - ps.spans[k].st

ValLen(ps, k) == IF k = 0 THEN 0 ELSE ValLen(ps, k - 1) + Len(ps.vals[k])

\* C4: the characters of the input that no pass replaced are in the output,
\* unchanged, once each and in their input order; the only input characters
\* missing are those inside a replaced span; the spans of a pass are
\* non-empty, left to right and disjoint, and each gets one replacement.
C4_UntouchedTextPreserved ==
    /\ Len(origin) = Len(text)
    /\ \A j \in Kept : origin[j] \in DOMAIN input /\ text[j] = input[origin[j]]
    /\ \A j, j2 \in Kept : j < j2 => origin[j] < origin[j2]
    /\ pc \in {"loop", "output", "done"} =>
          {origin[j] : j \in Kept} = (DOMAIN input) \ Consumed
    /\ \A p \in DOMAIN passes :
         LET ps == passes[p]
         IN  /\ Len(ps.vals) = Len(ps.spans)
             /\ \A k \in DOMAIN ps.spans :
                  /\ 1 <= ps.spans[k].st
                  /\ ps.spans[k].st < ps.spans[k].en
                  /\ ps.spans[k].en <= Len(ps.on) + 1
                  /\ k > 1 => ps.spans[k - 1].en <= ps.spans[k].st
             /\ Len(ps.out) = Len(ps.on) - SpanLen(ps, Len(ps.spans))
                                + ValLen(ps, Len(ps.spans))
             /\ \A q \in DOMAIN ps.on :
                  (\A k \in DOMAIN ps.spans : q < ps.spans[k].st)
                      => ps.out[q] = ps.on[q]
    /\ result # None => result = text

C4_Witness ==
    /\ result # None
    /\ Kept # {}
    /\ Consumed # {}
    /\ \E j \in Kept : j > 1 /\ origin[j - 1] = 0
    /\ \E j \in Kept : j < Len(origin) /\ origin[j + 1] = 0
    /\ \E p \in DOMAIN passes : Len(passes[p].spans) >= 2

\* C5: a text in which none of the requested categories' patterns matches
\* comes back as it was; the empty text comes back empty and without an
\* error, whatever the request.
C5_NoMatchIdentity ==
    result # None =>
       /\ (\A k \in DOMAIN names :
              names[k] \in Categories => inputSpans[names[k]] = <<>>)
            => (result = input /\ \A p \in DOMAIN passes : passes[p].out = input)
       /\ input = <<>> =>
            /\ result = <<>>
            /\ \A j \in DOMAIN log : log[j].what \notin {"generate", "unexpected"}

C5_Witness ==
    /\ result # None
    /\ input # <<>>
    /\ result = input
    /\ passes # <<>>
    /\ \A p \in DOMAIN passes : passes[p].spans = <<>>
    /\ \E c \in Categories :
         /\ \A k \in DOMAIN names : names[k] # c
         /\ inputSpans[c] # <<>>

C5_EmptyWitness ==
    /\ result = <<>>
    /\ input = <<>>
    /\ argNames = None
    /\ Len(passes) = 4

\* C6: without a sequence of names, the four categories get one pass each,
\* in the order phone_number, credit_card, email, ip_address; with one, the
\* listed categories get their passes in the listed order.
C6_EffectiveOrder ==
    LET eff == IF argNames = None
               THEN <<"phone_number", "credit_card", "email", "ip_address">>
               ELSE argNames
        done == SubSeq(eff, 1, IF i > 0 THEN i - 1 ELSE 0)
    IN  /\ PassNames = SelectSeq(done, LAMBDA nm : nm \in Categories)
        /\ result # None => PassNames = SelectSeq(eff, LAMBDA nm : nm \in Categories)
        /\ pc \in {"loop", "output", "done"} => names = eff

C6_Witness ==
    /\ argNames = None
    /\ result # None
    /\ Len(passes) = 4
    /\ \E p \in DOMAIN passes : passes[p].spans # <<>>

\* C7: each pass searches the text the pass before it returned (the first
\* one the input), and the text returned is the last pass's.
C7_SequentialPasses ==
    /\ \A p \in DOMAIN passes :
         passes[p].on = IF p = 1 THEN input ELSE passes[p - 1].out
    /\ passes # <<>> => passes[1].spans = inputSpans[passes[1].name]
    /\ pc = "loop" => text = LastText
    /\ result # None => result = LastText

\* a category replaces characters that the category before it inserted,
\* a text the input does not have at that place
C7_Witness ==
    /\ result # None
    /\ Len(passes) = 2
    /\ passes[1].name # passes[2].name
    /\ \E k \in DOMAIN passes[2].spans :
         /\ passes[2].fresh[k]
         /\ \A q \in passes[2].spans[k].st .. passes[2].spans[k].en - 1 :
               passes[2].onOrigin[q] = 0
         /\ \E q \in passes[2].spans[k].st .. passes[2].spans[k].en - 1 :
               q > Len(input) \/ passes[2].on[q] # input[q]

\* C8: with a locale the provider does not know, the construction fails:
\* no scrambler exists, scramble_text is never entered, and the failure
\* reaches the caller (main logs it and exits with status 1).
C8_BadLocaleFailsConstruction ==
    locale \notin SupportedLocales =>
       /\ ~scrambler
       /\ names = <<>> /\ i = 0 /\ passes = <<>> /\ result = None
       /\ pc \in {"validate", "read", "construct", "raised", "exit"}
       /\ pc = "raised" => entry = "api"
       /\ pc = "exit" => exitcode = 1

C8_Witness ==
    /\ locale \notin SupportedLocales
    /\ pc = "exit"
    /\ argNames = None
    /\ \E j \in DOMAIN log : log[j].name = "ConfigurationError"

\* C9 as stated: the names given are validated before any text is
\* processed, so a request with an invalid name has nothing substituted.
C9_ValidationBeforeProcessing ==
    (argNames # None /\ InvalidAt(argNames) # {}) =>
        \A p \in DOMAIN passes : passes[p].spans = <<>>

\* C9, amended: a request made through main has all its names tested before
\* any pattern is searched, and an invalid name ends it with status 1 and no
\* search at all; scramble_text called directly tests a name only when the
\* loop reaches it.
C9_MainValidatesFirst ==
    /\ (entry = "main" /\ argNames # None /\ pc # "validate") =>
          \/ /\ InvalidAt(argNames) = {}
             /\ checked = DOMAIN argNames
          \/ /\ InvalidAt(argNames) # {}
             /\ pc = "exit" /\ exitcode = 1
             /\ ~scrambler /\ passes = <<>> /\ result = None
    /\ (entry = "main" /\ passes # <<>>) => pc # "validate"
    /\ entry = "api" => checked = 1..(IF i > 0 THEN i - 1 ELSE 0)

C9_Witness ==
    /\ entry = "main"
    /\ argNames # None
    /\ Len(argNames) = 2
    /\ checked = DOMAIN argNames
    /\ Len(passes) = 1
    /\ passes[1].spans # <<>>
    /\ pc = "loop"

DigitSeq == <<"0", "1", "2", "3", "4", "5", "6", "7", "8", "9">>

DigitVal(c) == (CHOOSE k \in DOMAIN DigitSeq : DigitSeq[k] = c) - 1

RECURSIVE Value(_, _, _)

\* the number written by s[a..b], 256 standing for every number above 255
Value(s, a, b) ==
    IF b < a THEN 0
    ELSE LET v == 10 * Value(s, a, b - 1) + DigitVal(s[b])
         IN  IF v > 255 THEN 256 ELSE v

Dots(s) == {j \in DOMAIN s : s[j] = "."}

GroupEnd(s, a) ==
    (CHOOSE d \in {e \in Dots(s) \cup {Len(s) + 1} : e >= a} :
        \A e \in Dots(s) \cup {Len(s) + 1} : e >= a => d <= e) - 1

GroupStarts(s) == {1} \cup {d + 1 : d \in Dots(s)}

\* four groups of digits with dots between them, one group above 255
OutOfRangeQuad(s) ==
    /\ Cardinality(Dots(s)) = 3
    /\ \A j \in DOMAIN s : s[j] \in Digit \cup {"."}
    /\ \A a \in GroupStarts(s) : GroupEnd(s, a) >= a
    /\ \E a \in GroupStarts(s) : Value(s, a, GroupEnd(s, a)) > 255

\* C10: in a dotted quad with a group above 255 the ip_address pattern
\* matches nothing, and the text comes back as it was.
C10_OutOfRangeQuadUntouched ==
    (OutOfRangeQuad(input) /\ names = <<"ip_address">> /\ result # None) =>
        /\ \A p \in DOMAIN passes : passes[p].spans = <<>>
        /\ result = input

====
